---- MODULE Spec2Model ----
(***************************************************************************)
(* POST /webhook of src/app.py: the optional token check, the JSON-or-raw  *)
(* normalisation of the request body, the inline call of the messaging     *)
(* client and the response the caller gets.                                *)
(*                                                                         *)
(* Text is a sequence of one-character strings.  A body is a sequence of   *)
(* bytes: an ASCII byte is its character, a byte above 0x7F is a token     *)
(* such as "<C3>".  A decoded non-ASCII character is a token "U+00E9".     *)
(* A Python value is a record [t |-> type tag, v |-> payload].             *)
(***************************************************************************)
EXTENDS Integers, Sequences, FiniteSets, TLC

VARIABLES
    WEBHOOK_TOKEN,  \* line 24: the configured secret, fixed at startup
    pc,             \* where the handler coroutine of the current request is
    token,          \* line 81: the X-Webhook-Token header of the current request, or None
    raw,            \* the request body, bytes
    meaning,        \* what the body was written as: a JSON document or plain text
    text,           \* the handler's local `text`
    sent,           \* the body= argument of client.messages.create, or NoCall
    twilio,         \* the state of the client.messages.create call
    response,       \* the HTTP response the caller got, or NoResponse
    errors          \* the logger.error lines of the current request

vars == <<WEBHOOK_TOKEN, pc, token, raw, meaning, text, sent, twilio, response, errors>>

-----------------------------------------------------------------------------
(* Python values *)

PyNone      == [t |-> "none", v |-> 0]
PyBool(b)   == [t |-> "bool", v |-> b]
PyInt(n)    == [t |-> "int",  v |-> n]
PyStr(cs)   == [t |-> "str",  v |-> cs]
PyList(xs)  == [t |-> "list", v |-> xs]
\* a dict is the sequence of its <<key, value>> items in insertion order
PyDict(kvs) == [t |-> "dict", v |-> kvs]

\* Python's s[:n] for n >= 0, on a str or a list
Slice(s, n) == SubSeq(s, 1, IF Len(s) < n THEN Len(s) ELSE n)

Min(S) == CHOOSE x \in S : \A y \in S : x <= y

RECURSIVE Concat(_)
\* the concatenation of a sequence of sequences, by halves
Concat(ss) ==
    IF Len(ss) = 0 THEN <<>>
    ELSE IF Len(ss) = 1 THEN ss[1]
    ELSE LET h == Len(ss) \div 2
         IN  Concat(SubSeq(ss, 1, h)) \o Concat(SubSeq(ss, h + 1, Len(ss)))

-----------------------------------------------------------------------------
(* bytes.decode('utf-8'): line 105 with errors='ignore', and the strict     *)
(* decoding json.loads applies to the bytes request.json() hands it, line 96 *)

Lead2 == {"<C3>"}          \* the first byte of a two-byte sequence
Cont  == {"<A9>"}          \* a continuation byte
Stray == {"<FF>"}          \* a byte no UTF-8 sequence holds
HighBytes == Lead2 \cup Cont \cup Stray

\* the character a two-byte sequence encodes
CodePoint(lead, cont) == "U+00E9"

Dropped == "<drop>"
Kept(c) == c /= Dropped

StartsPair(bs, i) == bs[i] \in Lead2 /\ i < Len(bs) /\ bs[i + 1] \in Cont
EndsPair(bs, i)   == bs[i] \in Cont /\ i > 1 /\ bs[i - 1] \in Lead2
Undecodable(bs, i) ==
    bs[i] \in HighBytes /\ ~StartsPair(bs, i) /\ ~EndsPair(bs, i)

\* each byte's character: a sequence's first byte carries it, the bytes that
\* continue a sequence and the undecodable ones carry none
Decoded(bs) ==
    [i \in 1..Len(bs) |->
        IF bs[i] \notin HighBytes THEN bs[i]
        ELSE IF StartsPair(bs, i) THEN CodePoint(bs[i], bs[i + 1])
        ELSE Dropped]

\* errors='replace' in place of 'ignore': an undecodable byte becomes U+FFFD
decode_utf8_replace(bs) ==
    SelectSeq([i \in 1..Len(bs) |->
                  IF Undecodable(bs, i) THEN "U+FFFD" ELSE Decoded(bs)[i]], Kept)

\* raw.decode('utf-8', errors='ignore')
decode_utf8_ignore(bs) == SelectSeq(Decoded(bs), Kept)

\* bytes.decode('utf-8'): raises UnicodeDecodeError on an undecodable byte
decode_utf8_strict(bs) ==
    IF \E i \in 1..Len(bs) : Undecodable(bs, i)
    THEN [ok |-> FALSE, v |-> <<>>]
    ELSE [ok |-> TRUE, v |-> SelectSeq(Decoded(bs), Kept)]

-----------------------------------------------------------------------------
(* json.loads, as request.json() of line 96 applies it.  Covered: objects,  *)
(* arrays, strings with the escapes of EscapeTable, integers, true, false,  *)
(* null and white space.  The bodies drawn hold no fraction, exponent,      *)
(* \uXXXX escape, NaN or Infinity.                                          *)

Quote     == "\""
Backslash == "\\"
NL        == "\n"
WS        == {" ", "\n", "\t", "\r"}
Control   == {"\n", "\t", "\r"}
DigitChars == <<"0", "1", "2", "3", "4", "5", "6", "7", "8", "9">>
IsDigit(c) == \E d \in 1..10 : DigitChars[d] = c
DigitVal(c) == (CHOOSE d \in 1..10 : DigitChars[d] = c) - 1

\* the characters a backslash may precede, and what each pair stands for
EscapeTable == {Quote, Backslash, "/", "n", "t", "r"}
Unescape(c) ==
    CASE c = "n" -> "\n"
      [] c = "t" -> "\t"
      [] c = "r" -> "\r"
      [] OTHER   -> c

Fail == [ok |-> FALSE, val |-> PyNone, next |-> 0]
Ok(val, next) == [ok |-> TRUE, val |-> val, next |-> next]

\* the first position from i on that holds no white space (Len(s) + 1: the end)
SkipWS(s, i) ==
    CHOOSE j \in i..(Len(s) + 1) :
        /\ j = Len(s) + 1 \/ s[j] \notin WS
        /\ \A k \in i..(j - 1) : s[k] \in WS

At(s, i, c) == i <= Len(s) /\ s[i] = c

HasPrefix(s, i, word) ==
    /\ i + Len(word) - 1 <= Len(s)
    /\ \A k \in 1..Len(word) : s[i + k - 1] = word[k]

\* how many backslashes stand right before position j, after position lo
BackslashRun(s, lo, j) ==
    CHOOSE k \in 0..(j - lo - 1) :
        /\ \A m \in 1..k : s[j - m] = Backslash
        /\ k = j - lo - 1 \/ s[j - k - 1] /= Backslash

Escaped(s, lo, j) == BackslashRun(s, lo, j) % 2 = 1

\* a string whose opening quote is at i
ParseString(s, i) ==
    LET closers == {j \in (i + 1)..Len(s) : s[j] = Quote /\ ~Escaped(s, i, j)}
    IN  IF closers = {} THEN Fail
        ELSE
        LET j == Min(closers)
            bad == \E k \in (i + 1)..(j - 1) :
                       \/ s[k] \in Control
                       \/ Escaped(s, i, k) /\ s[k] \notin EscapeTable
            marked == [k \in 1..(j - i - 1) |->
                         IF Escaped(s, i, i + k) THEN Unescape(s[i + k])
                         ELSE IF s[i + k] = Backslash THEN Dropped
                         ELSE s[i + k]]
        IN  IF bad THEN Fail ELSE Ok(PyStr(SelectSeq(marked, Kept)), j + 1)

RECURSIVE Decimal(_, _, _)
\* the value of the digits s[lo..hi]
Decimal(s, lo, hi) ==
    IF hi < lo THEN 0 ELSE 10 * Decimal(s, lo, hi - 1) + DigitVal(s[hi])

\* an integer that starts at i: -?(0|[1-9][0-9]*)
ParseNumber(s, i) ==
    LET neg == s[i] = "-"
        d   == IF neg THEN i + 1 ELSE i
    IN  IF ~(d <= Len(s) /\ IsDigit(s[d])) THEN Fail
        ELSE
        LET end == IF s[d] = "0" THEN d + 1
                   ELSE CHOOSE j \in (d + 1)..(Len(s) + 1) :
                            /\ j = Len(s) + 1 \/ ~IsDigit(s[j])
                            /\ \A k \in d..(j - 1) : IsDigit(s[k])
            n   == Decimal(s, d, end - 1)
        IN  Ok(PyInt(IF neg THEN 0 - n ELSE n), end)

\* d[k] = v on a dict: a key already there keeps its place
DictSet(kvs, k, v) ==
    IF \E n \in 1..Len(kvs) : kvs[n][1] = k
    THEN [n \in 1..Len(kvs) |-> IF kvs[n][1] = k THEN <<k, v>> ELSE kvs[n]]
    ELSE Append(kvs, <<k, v>>)

RECURSIVE ParseValue(_, _)
RECURSIVE ParseItems(_, _, _)
RECURSIVE ParseMembers(_, _, _)

\* the items of an array from position i on, acc the items read so far
ParseItems(s, i, acc) ==
    LET r == ParseValue(s, i)
        k == SkipWS(s, r.next)
    IN  IF ~r.ok THEN Fail
        ELSE IF At(s, k, "]") THEN Ok(PyList(Append(acc, r.val)), k + 1)
        ELSE IF At(s, k, ",") THEN ParseItems(s, SkipWS(s, k + 1), Append(acc, r.val))
        ELSE Fail

\* the members of an object from the key's quote at i on
ParseMembers(s, i, acc) ==
    LET key == ParseString(s, i)
        c   == SkipWS(s, key.next)
        r   == ParseValue(s, SkipWS(s, c + 1))
        k   == SkipWS(s, r.next)
        n   == SkipWS(s, k + 1)
    IN  IF ~key.ok \/ ~At(s, c, ":") THEN Fail
        ELSE IF ~r.ok THEN Fail
        ELSE IF At(s, k, "}") THEN Ok(PyDict(DictSet(acc, key.val.v, r.val)), k + 1)
        ELSE IF At(s, k, ",") /\ At(s, n, Quote)
             THEN ParseMembers(s, n, DictSet(acc, key.val.v, r.val))
        ELSE Fail

ParseValue(s, i) ==
    IF i > Len(s) THEN Fail
    ELSE IF s[i] = Quote THEN ParseString(s, i)
    ELSE IF s[i] = "{" THEN
        LET j == SkipWS(s, i + 1)
        IN  IF At(s, j, "}") THEN Ok(PyDict(<<>>), j + 1)
            ELSE IF At(s, j, Quote) THEN ParseMembers(s, j, <<>>)
            ELSE Fail
    ELSE IF s[i] = "[" THEN
        LET j == SkipWS(s, i + 1)
        IN  IF At(s, j, "]") THEN Ok(PyList(<<>>), j + 1)
            ELSE ParseItems(s, j, <<>>)
    ELSE IF HasPrefix(s, i, <<"n", "u", "l", "l">>) THEN Ok(PyNone, i + 4)
    ELSE IF HasPrefix(s, i, <<"t", "r", "u", "e">>) THEN Ok(PyBool(TRUE), i + 4)
    ELSE IF HasPrefix(s, i, <<"f", "a", "l", "s", "e">>) THEN Ok(PyBool(FALSE), i + 5)
    ELSE IF s[i] = "-" \/ IsDigit(s[i]) THEN ParseNumber(s, i)
    ELSE Fail

\* json.loads(str): one value, white space around it, nothing else
json_loads(s) ==
    LET r == ParseValue(s, SkipWS(s, 1))
    IN  IF r.ok /\ SkipWS(s, r.next) = Len(s) + 1 THEN r ELSE Fail

\* await request.json(): json.loads of the body's bytes
request_json(bs) ==
    LET d == decode_utf8_strict(bs)
    IN  IF d.ok THEN json_loads(d.v) ELSE Fail

-----------------------------------------------------------------------------
(* json.dumps(body, indent=2), line 101: ensure_ascii is on, items are      *)
(* separated by "," and a line break, a key from its value by ": "          *)

IndentWidth == 2

Pad(level) == [k \in 1..(IndentWidth * level) |-> " "]

RECURSIVE Digits(_)
\* the decimal digits of n >= 0
Digits(n) ==
    IF n < 10 THEN <<DigitChars[n + 1]>>
    ELSE Append(Digits(n \div 10), DigitChars[(n % 10) + 1])

\* what one character of a string is written as
EscapeChar(c) ==
    CASE c = Quote     -> <<Backslash, Quote>>
      [] c = Backslash -> <<Backslash, Backslash>>
      [] c = "\n"      -> <<Backslash, "n">>
      [] c = "\t"      -> <<Backslash, "t">>
      [] c = "\r"      -> <<Backslash, "r">>
      [] c = "U+00E9"  -> <<Backslash, "u", "0", "0", "e", "9">>
      [] OTHER         -> <<c>>

DumpString(cs) ==
    <<Quote>> \o Concat([k \in 1..Len(cs) |-> EscapeChar(cs[k])]) \o <<Quote>>

RECURSIVE Dump(_, _)
\* the text of value x whose own line is indented `level` times
Dump(x, level) ==
    LET lead(k) == (IF k = 1 THEN <<>> ELSE <<",">>) \o <<NL>> \o Pad(level + 1)
    IN  CASE x.t = "none" -> <<"n", "u", "l", "l">>
          [] x.t = "bool" -> IF x.v THEN <<"t", "r", "u", "e">>
                             ELSE <<"f", "a", "l", "s", "e">>
          [] x.t = "int"  -> IF x.v < 0 THEN <<"-">> \o Digits(0 - x.v)
                             ELSE Digits(x.v)
          [] x.t = "str"  -> DumpString(x.v)
          [] x.t = "list" ->
                IF Len(x.v) = 0 THEN <<"[", "]">>
                ELSE <<"[">>
                     \o Concat([k \in 1..Len(x.v) |->
                                   lead(k) \o Dump(x.v[k], level + 1)])
                     \o <<NL>> \o Pad(level) \o <<"]">>
          [] x.t = "dict" ->
                IF Len(x.v) = 0 THEN <<"{", "}">>
                ELSE <<"{">>
                     \o Concat([k \in 1..Len(x.v) |->
                                   lead(k) \o DumpString(x.v[k][1]) \o <<":", " ">>
                                   \o Dump(x.v[k][2], level + 1)])
                     \o <<NL>> \o Pad(level) \o <<"}">>

json_dumps(x) == Dump(x, 0)

-----------------------------------------------------------------------------
(* the handler's own steps, lines 76-125 *)

MaxBodyLen == 1600      \* line 116: text[:1600]

MESSAGE == <<"m", "e", "s", "s", "a", "g", "e">>

\* Python's truth value: `if token:` line 82, `if not text:` line 100
Truthy(x) ==
    CASE x.t = "none" -> FALSE
      [] x.t = "bool" -> x.v
      [] x.t = "int"  -> x.v /= 0
      [] OTHER        -> Len(x.v) > 0

\* the comparison left out: every header value passes
TokenNeverChecked(h, secret) == FALSE

\* lines 82-87: the header value is compared only when it is truthy
TokenMismatch(h, secret) == Truthy(h) /\ h.v /= secret

\* body.get(key)
DictGet(d, key) ==
    IF \E n \in 1..Len(d.v) : d.v[n][1] = key
    THEN d.v[CHOOSE n \in 1..Len(d.v) : d.v[n][1] = key][2]
    ELSE PyNone

\* line 99: body.get("message") if isinstance(body, dict) else None
MessageOf(body) == IF body.t = "dict" THEN DictGet(body, MESSAGE) ELSE PyNone

\* lines 99-101: the message field when it is truthy, else the JSON pretty-printed
TextOfJson(body) ==
    IF Truthy(MessageOf(body)) THEN MessageOf(body) ELSE PyStr(json_dumps(body))

\* lines 104-105
TextOfRaw(bs) == PyStr(decode_utf8_ignore(bs))

\* lines 93-106: whatever request.json() raises, the bare except falls back
Normalize(bs) ==
    LET r == request_json(bs)
    IN  IF r.ok THEN TextOfJson(r.val) ELSE TextOfRaw(bs)

\* x[:n] raises TypeError unless x is a str or a list
Sliceable(x) == x.t \in {"str", "list"}
PySlice(x, n) == [t |-> x.t, v |-> Slice(x.v, n)]

\* the slice left out: the whole text is handed over
MessageBodyUncut(x) == x

\* line 116: body=text[:1600]
MessageBody(x) == PySlice(x, MaxBodyLen)

NoCall     == [t |-> "nocall", v |-> 0]
NoResponse == [status |-> 0, body |-> "none"]
\* line 87
Unauthorized == [status |-> 401, body |-> "Unauthorized"]
\* line 121
SentResponse == [status |-> 200, body |-> "sent"]
\* line 125
TwilioErrorResponse == [status |-> 500, body |-> "Twilio error"]
\* an exception no handler catches: the framework answers 500
ServerError == [status |-> 500, body |-> "Internal Server Error"]

-----------------------------------------------------------------------------
(* the requests drawn: each body with what it was written as, a JSON        *)
(* document (json, doc the document) or plain text (doc the text a reader   *)
(* of the bytes sees)                                                       *)

MaxOver == 1    \* long texts run from MaxBodyLen - 1 to MaxBodyLen + MaxOver characters
MaxNum  == 2    \* the JSON numbers 0..MaxNum

Rep(c, n) == [k \in 1..n |-> c]
Q == <<Quote>>
Val(bytes, doc) == [raw |-> bytes, doc |-> doc]
StrVal(cs) == Val(Q \o cs \o Q, PyStr(cs))
Member(key, val) == Val(Q \o key \o Q \o <<":", " ">> \o val.raw, <<key, val.doc>>)
Obj1(m) == Val(<<"{">> \o m.raw \o <<"}">>, PyDict(<<m.doc>>))
Obj2(m, n) == Val(<<"{">> \o m.raw \o <<",", " ">> \o n.raw \o <<"}">>, PyDict(<<m.doc, n.doc>>))

Hi == StrVal(<<"h", "i">>)
One == Val(<<"1">>, PyInt(1))

ShortValues ==
    << Val(<<"n", "u", "l", "l">>, PyNone),
       Val(<<"t", "r", "u", "e">>, PyBool(TRUE)),
       Val(<<"f", "a", "l", "s", "e">>, PyBool(FALSE)),
       Val(<<"-", "7">>, PyInt(0 - 7)),
       StrVal(<<>>),
       Hi,
       Val(<<Quote, "<C3>", "<A9>", Quote>>, PyStr(<<"U+00E9">>)),
       Val(<<Quote, "a", Backslash, Quote, "b", Backslash, "n", Quote>>,
           PyStr(<<"a", Quote, "b", "\n">>)),
       Val(<<"[", "]">>, PyList(<<>>)),
       Val(<<"[", Quote, "a", Quote, "]">>, PyList(<<PyStr(<<"a">>)>>)),
       Val(<<"[", "1", ",", " ", "n", "u", "l", "l", "]">>, PyList(<<PyInt(1), PyNone>>)),
       Val(<<"{", "}">>, PyDict(<<>>)),
       Obj1(Member(<<"a">>, One)) >>

NumValues  == [n \in 1..(MaxNum + 1) |-> Val(Digits(n - 1), PyInt(n - 1))]
LongValues == [k \in 1..(MaxOver + 2) |-> StrVal(Rep("A", MaxBodyLen - 2 + k))]
Values == ShortValues \o NumValues \o LongValues

JsonBody(val) == [raw |-> val.raw, json |-> TRUE, doc |-> val.doc]
TextBody(bytes, cs) == [raw |-> bytes, json |-> FALSE, doc |-> PyStr(cs)]
Plain(cs) == TextBody(cs, cs)

\* every value as the whole body, as the "message" field and as another field
ValueBodies ==
    [k \in 1..Len(Values) |-> JsonBody(Values[k])]
    \o [k \in 1..Len(Values) |-> JsonBody(Obj1(Member(MESSAGE, Values[k])))]
    \o [k \in 1..Len(Values) |-> JsonBody(Obj1(Member(<<"n", "o", "t", "e">>, Values[k])))]

MoreJsonBodies ==
    << JsonBody(Obj2(Member(MESSAGE, Hi), Member(<<"x">>, One))),
       JsonBody(Obj2(Member(<<"x">>, One), Member(MESSAGE, Hi))),
       JsonBody(Obj1(Member(<<"M", "e", "s", "s", "a", "g", "e">>, Hi))),
       JsonBody(Obj1(Member(<<"d">>, Obj1(Member(MESSAGE, Hi))))),
       JsonBody(Val(<<" ", "{", " ">> \o Q \o MESSAGE \o Q \o <<" ", ":", "\n">> \o Hi.raw
                        \o <<"\t", "}", "\r", "\n">>,
                    PyDict(<< <<MESSAGE, Hi.doc>> >>))) >>

TextBodies ==
    << Plain(<<>>),
       Plain(<<" ">>),
       Plain(<<"A", "A", "P", "L", " ", "u", "p", " ", "3", "%">>),
       Plain(<<"{", "\"", "m", "e", "s", "s", "a", "g", "e", "\"", ":", " ", "\"", "h", "i", "\"">>),
       Plain(Obj1(Member(MESSAGE, Hi)).raw \o <<" ", "x">>),
       Plain(<<"{", "'", "m", "e", "s", "s", "a", "g", "e", "'", ":", "1", "}">>),
       Plain(<<"[", "1", ",", "]">>),
       Plain(<<"0", "1">>),
       TextBody(<<"u", "p", " ", "<C3>", "<A9>">>, <<"u", "p", " ", "U+00E9">>),
       TextBody(<<"<FF>">>, <<>>),
       TextBody(<<"a", "<FF>", "b", "<C3>">>, <<"a", "b">>),
       TextBody(<<"<A9>", "<C3>", "<C3>", "<A9>", "<A9>">>, <<"U+00E9">>),
       TextBody(<<Quote, "<C3>", Quote>>, <<Quote, Quote>>),
       TextBody(Obj1(Member(MESSAGE, Hi)).raw \o <<"<FF>">>, Obj1(Member(MESSAGE, Hi)).raw) >>

LongTextBodies ==
    [k \in 1..(MaxOver + 2) |-> Plain(Rep("B", MaxBodyLen - 2 + k))]
    \o [k \in 1..(MaxOver + 2) |->
           TextBody(<<"<FF>">> \o Rep("B", MaxBodyLen - 2 + k) \o <<"<C3>", "<A9>">>,
                    Rep("B", MaxBodyLen - 2 + k) \o <<"U+00E9">>)]

Bodies == ValueBodies \o MoreJsonBodies \o TextBodies \o LongTextBodies

Secrets == {<<"k", "1">>, <<"k", "2">>}
Tokens == <<PyNone, PyStr(<<>>), PyStr(<<"k", "1">>), PyStr(<<"k", "2">>), PyStr(<<"k">>)>>

-----------------------------------------------------------------------------
(* the state machine: one request at a time, as the blocking call of line   *)
(* 113 lets the event loop serve it                                         *)

Cleared ==
    /\ token = PyNone
    /\ raw = <<>>
    /\ meaning = [json |-> FALSE, doc |-> PyStr(<<>>)]
    /\ text = PyNone
    /\ sent = NoCall
    /\ twilio = "idle"
    /\ response = NoResponse
    /\ errors = <<>>

\* lines 24-34: startup fails unless WEBHOOK_TOKEN is set and not empty
Init ==
    /\ WEBHOOK_TOKEN \in Secrets
    /\ pc = "idle"
    /\ Cleared

\* line 76: a POST /webhook arrives
Receive ==
    /\ pc = "idle"
    /\ \E h \in 1..Len(Tokens), b \in 1..Len(Bodies) :
        /\ token' = Tokens[h]
        /\ raw' = Bodies[b].raw
        /\ meaning' = [json |-> Bodies[b].json, doc |-> Bodies[b].doc]
    /\ pc' = "auth"
    /\ UNCHANGED <<WEBHOOK_TOKEN, text, sent, twilio, response, errors>>

\* lines 81-90
CheckToken ==
    /\ pc = "auth"
    /\ IF TokenMismatch(token, WEBHOOK_TOKEN)
       THEN /\ errors' = Append(errors, "UNAUTHORIZED")
            /\ response' = Unauthorized
            /\ pc' = "done"
       ELSE /\ pc' = "parse"
            /\ UNCHANGED <<errors, response>>
    /\ UNCHANGED <<WEBHOOK_TOKEN, token, raw, meaning, text, sent, twilio>>

\* lines 93-106
ParseBody ==
    /\ pc = "parse"
    /\ text' = Normalize(raw)
    /\ pc' = "preview"
    /\ UNCHANGED <<WEBHOOK_TOKEN, token, raw, meaning, sent, twilio, response, errors>>

\* lines 108-109: text[:100] outside any try
LogPreview ==
    /\ pc = "preview"
    /\ IF Sliceable(text)
       THEN /\ pc' = "send"
            /\ UNCHANGED response
       ELSE /\ response' = ServerError
            /\ pc' = "done"
    /\ UNCHANGED <<WEBHOOK_TOKEN, token, raw, meaning, text, sent, twilio, errors>>

\* the call handed to a background task and the caller answered at once
CallCreateInBackground ==
    /\ pc = "send"
    /\ sent' = MessageBody(text)
    /\ twilio' = "pending"
    /\ response' = SentResponse
    /\ pc' = "waiting"
    /\ UNCHANGED <<WEBHOOK_TOKEN, token, raw, meaning, text, errors>>

\* lines 113-117: the call is made inline and the handler waits for it
CallCreate ==
    /\ pc = "send"
    /\ sent' = MessageBody(text)
    /\ twilio' = "pending"
    /\ pc' = "waiting"
    /\ UNCHANGED <<WEBHOOK_TOKEN, token, raw, meaning, text, response, errors>>

\* the messaging API answers: client.messages.create returns a message
TwilioReturns ==
    /\ pc = "waiting" /\ twilio = "pending"
    /\ twilio' = "ok"
    /\ UNCHANGED <<WEBHOOK_TOKEN, pc, token, raw, meaning, text, sent, response, errors>>

\* the call fails: client.messages.create raises
TwilioRaises ==
    /\ pc = "waiting" /\ twilio = "pending"
    /\ twilio' = "error"
    /\ UNCHANGED <<WEBHOOK_TOKEN, pc, token, raw, meaning, text, sent, response, errors>>

\* lines 118-121
ReturnSent ==
    /\ pc = "waiting" /\ twilio = "ok"
    /\ response' = SentResponse
    /\ pc' = "done"
    /\ UNCHANGED <<WEBHOOK_TOKEN, token, raw, meaning, text, sent, twilio, errors>>

\* the except branch logging only and answering as if the message were sent
SwallowTwilioError ==
    /\ pc = "waiting" /\ twilio = "error"
    /\ errors' = Append(errors, "TWILIO ERROR")
    /\ response' = SentResponse
    /\ pc' = "done"
    /\ UNCHANGED <<WEBHOOK_TOKEN, token, raw, meaning, text, sent, twilio>>

\* lines 122-125
RaiseTwilioError ==
    /\ pc = "waiting" /\ twilio = "error"
    /\ errors' = Append(errors, "TWILIO ERROR")
    /\ response' = TwilioErrorResponse
    /\ pc' = "done"
    /\ UNCHANGED <<WEBHOOK_TOKEN, token, raw, meaning, text, sent, twilio>>

\* the response is out and the handler's locals are gone
Finish ==
    /\ pc = "done"
    /\ pc' = "idle"
    /\ token' = PyNone
    /\ raw' = <<>>
    /\ meaning' = [json |-> FALSE, doc |-> PyStr(<<>>)]
    /\ text' = PyNone
    /\ sent' = NoCall
    /\ twilio' = "idle"
    /\ response' = NoResponse
    /\ errors' = <<>>
    /\ UNCHANGED WEBHOOK_TOKEN

\* the steps that are the handler's own; TwilioReturns and TwilioRaises are the
\* messaging API's, and nothing makes it answer
Handler ==
    \/ CheckToken \/ ParseBody \/ LogPreview \/ CallCreate
    \/ ReturnSent \/ RaiseTwilioError

Next ==
    \/ Receive
    \/ CheckToken
    \/ ParseBody
    \/ LogPreview
    \/ CallCreate
    \/ TwilioReturns
    \/ TwilioRaises
    \/ ReturnSent
    \/ RaiseTwilioError
    \/ Finish

Spec == Init /\ [][Next]_vars

-----------------------------------------------------------------------------
(* what the claims speak of *)

\* the request carries the header with a value, and it is not the secret
TokenDiffers ==
    token.t = "str" /\ Len(token.v) > 0 /\ token.v /= WEBHOOK_TOKEN

\* the request carries no header, or carries it with an empty value
TokenMissing == token.t = "none" \/ (token.t = "str" /\ Len(token.v) = 0)

\* the handler is past the token check and did not reject the request
Accepted == pc \in {"parse", "preview", "send", "waiting", "done"} /\ response /= Unauthorized

\* the handler is past normalisation
Normalized == pc \in {"preview", "send", "waiting", "done"} /\ response /= Unauthorized

\* the request was answered, or is held at the call of the messaging API
Delivering == pc \in {"waiting", "done"} /\ response /= Unauthorized

\* the JSON document is an object whose "message" member is a non-empty string
UsableMessage(doc) ==
    /\ doc.t = "dict"
    /\ \E n \in 1..Len(doc.v) :
          doc.v[n][1] = MESSAGE /\ doc.v[n][2].t = "str" /\ Len(doc.v[n][2].v) > 0

MessageField(doc) == doc.v[CHOOSE n \in 1..Len(doc.v) : doc.v[n][1] = MESSAGE][2].v

IsText(x, cs) == x.t = "str" /\ x.v = cs

-----------------------------------------------------------------------------
\* C1: a request whose X-Webhook-Token header is non-empty and differs from
\* WEBHOOK_TOKEN is answered 401 Unauthorized, and client.messages.create is
\* never called for it.
C1_MismatchRejected ==
    TokenDiffers =>
        /\ pc \in {"auth", "done"}
        /\ sent = NoCall /\ twilio = "idle"
        /\ pc = "done" => response = Unauthorized

C1_Witness == TokenDiffers /\ pc = "done" /\ response = Unauthorized

C4_PayloadNeverFails ==
    /\ response /= ServerError
    /\ (pc = "done" /\ Accepted) => sent /= NoCall

\* C5: whatever the request body, the body= argument of every
\* client.messages.create call is a string of at most 1600 characters.
C5_BodyIsShortString ==
    sent /= NoCall => sent.t = "str" /\ Len(sent.v) <= MaxBodyLen

\* C6: a body that is a JSON object with a non-empty string "message" is
\* delivered as that string, cut to its first 1600 characters.
C6_MessageFieldDelivered ==
    (meaning.json /\ UsableMessage(meaning.doc) /\ Delivering) =>
        IsText(sent, Slice(MessageField(meaning.doc), MaxBodyLen))

C6_Witness ==
    /\ meaning.json /\ UsableMessage(meaning.doc) /\ Delivering
    /\ Len(MessageField(meaning.doc)) > MaxBodyLen
    /\ sent.t = "str" /\ Len(sent.v) = MaxBodyLen

\* C7: a JSON body without a usable "message" (not an object, no such member,
\* or a member that is empty or not a string) is normalised to its
\* pretty-printed JSON, cut to 1600 characters.
C7_PrettyPrintedWithoutMessage ==
    (meaning.json /\ ~UsableMessage(meaning.doc) /\ Normalized) =>
        /\ text.t = "str"
        /\ Slice(text.v, MaxBodyLen) = Slice(json_dumps(meaning.doc), MaxBodyLen)

\* C8: for an empty body the message handed to the delivery call is a
\* non-empty placeholder, never the empty string.
C8_EmptyBodyPlaceholder ==
    (Len(raw) = 0 /\ sent /= NoCall) => sent.t = "str" /\ Len(sent.v) > 0

\* C9: a body that is not JSON is delivered as its UTF-8 decoding with the
\* undecodable bytes dropped, cut to 1600 characters.
C9_RawTextDelivered ==
    (~meaning.json /\ Delivering) => IsText(sent, Slice(meaning.doc.v, MaxBodyLen))

C9_Witness ==
    /\ ~meaning.json /\ Delivering
    /\ \E i \in 1..Len(raw) : Undecodable(raw, i)
    /\ Len(meaning.doc.v) > MaxBodyLen
    /\ sent.t = "str" /\ Len(sent.v) = MaxBodyLen

\* C10: a request without the X-Webhook-Token header, or with an empty one, is
\* never answered 401 and always goes on to normalisation and a delivery call.
C10_NoTokenAlwaysDelivers ==
    (TokenMissing /\ pc = "done") => response /= Unauthorized /\ sent /= NoCall

====
